---- MODULE Spec2Model ----
(***************************************************************************)
(* Model of the interner crate (src/src/lib.rs): an Interner<T> holding a  *)
(* Mutex<HashMap<InternKey, InternField<T>>>, and the Interned handles that *)
(* point into the map's storage and count themselves in the field's        *)
(* AtomicUsize.                                                            *)
(*                                                                         *)
(* Threads run intern / intern_borrowed / clone / deref / drop on one      *)
(* shared Interner.  Every atomic operation and every lock acquisition of  *)
(* the code is one step of the model.                                      *)
(*                                                                         *)
(* The map stores each InternField inline (lib.rs:58), so a field lives at *)
(* an address inside the map's bucket array.  An address is modelled as    *)
(* <<generation, key>>: the generation counts the bucket arrays the map    *)
(* has allocated.  An insert into a full map allocates a larger array,     *)
(* moves every field into it and frees the old one; the references held by *)
(* handles (lib.rs:64, made by extend_lifetime at lib.rs:88) are not       *)
(* updated.  An access through a reference into a freed array is undefined *)
(* behaviour: the value read is a nondeterministic choice and the write,   *)
(* landing in freed memory, does not reach the live map.  Only growth is    *)
(* modelled as moving fields (the std of 2015 also moved them on other     *)
(* inserts and on removals).                                               *)
(*                                                                         *)
(* The counts' atomic operations are taken as sequentially consistent.     *)
(*                                                                         *)
(* Spec has callers whose contents all have different keys; CollisionSpec  *)
(* adds a content whose SHA-1 digest is that of another one.               *)
(*                                                                         *)
(* Counts are usize values; they are written as integers, -1 standing for  *)
(* usize::MAX (the result of fetch_sub on 0).                              *)
(***************************************************************************)
EXTENDS Integers, Sequences, FiniteSets, TLC

\* ------------------------------------------------------------------ bounds
MaxHandles == 3      \* Interned values in existence at one time
MinCapacity == 2     \* entries the first bucket array holds before it grows
                     \* (3 in today's std, 29 in the std of 2015)

\* The threads sharing the Interner.
Threads == {1, 2}

\* The contents a caller can pass: the tests' Foo::FooNone and "hello".
Leaves == {"FooNone", "hello"}

\* A content other than "hello" whose Hash stream has the digest of "hello".
Colliding == "olleh"

VARIABLES
    map,        \* the HashMap: present InternKey -> InternField [count, data]
    cap,        \* entries the current bucket array can hold
    gen,        \* generation of the current bucket array
    lock,       \* the Mutex: 0 when free, else the thread holding the guard
    poisoned,   \* the Mutex's poison flag
    user,       \* the Interned values callers hold: Interned -> how many
    th,         \* Threads -> the thread's position and locals
    fast        \* the operation the last step ran without the lock while
                \* another thread held it ("" if it was no such step)

vars == <<map, cap, gen, lock, poisoned, user, th, fast>>

\* ------------------------------------------------------------------ values
NoKey == << >>
\* struct Interned: its key and the reference `field`, an address
\* <<generation, key>> in the map's storage (the interner is the one modelled).
Interned(k, f) == [key |-> k, field |-> f]
NoHandle == Interned(NoKey, <<0, NoKey>>)

\* T: a leaf value (Foo::FooNone, a String), or Foo::FooSome(Interned).
OwnedLeaf(x) == [tag |-> "leaf", leaf |-> x, inner |-> NoHandle]
\* A borrowed view &B of a leaf (a &str of a String).
BorrowedLeaf(x) == [tag |-> "view", leaf |-> x, inner |-> NoHandle]
FooSome(i) == [tag |-> "some", leaf |-> "", inner |-> i]
NoData == [tag |-> "none", leaf |-> "", inner |-> NoHandle]

\* ToOwned::to_owned: the owned value with the view's content.
to_owned(v) == IF v.tag = "view" THEN OwnedLeaf(v.leaf) ELSE v

\* The SHA-1 digest of a leaf's Hash stream, named by the content that has
\* it: 160 bits cannot tell all streams apart, and Colliding shares the
\* digest of "hello".
Sha1(x) == IF x = Colliding THEN "hello" ELSE x

\* InternKey::hash: the digest of the value's Hash stream.  A leaf and a
\* view of it feed the same bytes; Foo::FooSome feeds its discriminant and
\* then the inner handle's key (Hash for Interned).
InternKeyHash(v) ==
    IF v.tag = "some" THEN <<"FooSome">> \o v.inner.key ELSE <<Sha1(v.leaf)>>

\* Hash for Interned: feeds the key alone.
hash(i) == i.key

\* PartialEq for Interned.
eq(i, j) == i.key = j.key

\* ------------------------------------------------------------------ memory
InternField(c, d) == [count |-> c, data |-> d]
EmptyMap == [k \in {} |-> InternField(0, NoData)]

\* Address of the field stored for key k in the current bucket array.
AddrOf(k) == <<gen, k>>

\* The reference self.field of handle i designates a field of the live map.
FieldValid(i) ==
    /\ i.key \in DOMAIN map
    /\ i.field = AddrOf(i.key)

\* The handles callers hold, as a bag.
Held(i) == IF i \in DOMAIN user THEN user[i] ELSE 0
Give(bag, i) ==
    [x \in DOMAIN bag \cup {i} |->
        (IF x \in DOMAIN bag THEN bag[x] ELSE 0) + (IF x = i THEN 1 ELSE 0)]
Take(bag, i) ==
    [x \in {y \in DOMAIN bag : y # i \/ bag[y] > 1} |->
        bag[x] - (IF x = i THEN 1 ELSE 0)]
RECURSIVE BagSize(_)
BagSize(bag) ==
    IF DOMAIN bag = {} THEN 0
    ELSE LET x == CHOOSE y \in DOMAIN bag : TRUE
         IN bag[x] + BagSize([y \in DOMAIN bag \ {x} |-> bag[y]])

\* Handles owned by values: those of the map's fields and of the threads'
\* locals (a closure's value, a removed field's value, a return value).
InFields == {k \in DOMAIN map : map[k].data.tag = "some"}
InLocals == {t \in Threads : th[t].data.tag = "some"}
Returning == {t \in Threads : th[t].ret # NoHandle}
InIntern == {t \in Threads : th[t].pc \in {"intern_lock", "intern_entry", "intern_incr"}}

\* All handles whose drop has not yet decremented.
LiveHandles ==
    DOMAIN user \cup {map[k].data.inner : k \in InFields}
                \cup {th[t].data.inner : t \in InLocals}
                \cup {th[t].ret : t \in Returning}
LiveCount ==
    BagSize(user) + Cardinality(InFields) + Cardinality(InLocals)
                  + Cardinality(Returning)

Idle == [pc |-> "idle", key |-> NoKey, data |-> NoData, ret |-> NoHandle]

\* No thread has aborted the process (a panic while panicking).
Running == \A t \in Threads : th[t].pc # "aborted"

\* Values read when a reference into a freed bucket array is dereferenced.
Garbage == Leaves \cup {"FooSome", "garbage"}
View(v) == IF v.tag = "some" THEN "FooSome" ELSE v.leaf

\* Deref for Interned: what *i can yield.
deref(i) == IF FieldValid(i) THEN {View(map[i.key].data)} ELSE Garbage

\* ------------------------------------------------------------------ Init
\* Interner::new(): an empty map (capacity 0, nothing allocated), a free lock.
Init ==
    /\ map = EmptyMap
    /\ cap = 0
    /\ gen = 0
    /\ lock = 0
    /\ poisoned = FALSE
    /\ user = [i \in {} |-> 0]
    /\ th = [t \in Threads |-> Idle]
    /\ fast = ""

\* Storage after inserting a new key: a full bucket array is replaced by a
\* larger one (HashMap::new() starts at capacity 0 and allocates on the
\* first insert).  Returns <<capacity, generation>>.
Grow ==
    IF Cardinality(DOMAIN map) < cap THEN <<cap, gen>>
    ELSE <<IF cap = 0 THEN MinCapacity ELSE 2 * cap, gen + 1>>

\* fetch_add / fetch_sub on self.field.count of handle i: the map after the
\* write.  A write through a dangling reference does not reach the map.
CountAdd(i, d) ==
    IF FieldValid(i)
    THEN [map EXCEPT ![i.key].count = @ + d]
    ELSE map

\* The values fetch_sub / fetch_add can return (the count before the write).
\* Through a dangling reference the read is undefined: it may or may not be 1.
CountRead(i) ==
    IF FieldValid(i) THEN {map[i.key].count} ELSE {1, 2}

\* What `fast` records for a step that ran operation op without the lock.
Observed(op) == IF lock # 0 THEN op ELSE ""

\* The thread returns to its caller: the Interned made by intern_with, if
\* any, is handed over.
Return(t) ==
    IF th[t].ret = NoHandle THEN user ELSE Give(user, th[t].ret)

\* --------------------------------------------------------------- intern
\* Mutant of InternCall: hashing a value that contains a handle goes through
\* the interner's map and takes its lock.
InternCallLocking(t, v) ==
    /\ Running
    /\ th[t].pc = "idle"
    /\ LiveCount + Cardinality(InIntern) < MaxHandles + (IF v.tag = "some" THEN 1 ELSE 0)
    /\ th' = [th EXCEPT ![t] = [Idle EXCEPT !.pc = "intern_lock",
                                            !.key = InternKeyHash(v),
                                            !.data = v]]
    /\ user' = IF v.tag = "some" THEN Take(user, v.inner) ELSE user
    /\ IF v.tag = "some" THEN lock = 0 /\ lock' = t ELSE lock' = lock
    /\ fast' = ""
    /\ UNCHANGED <<map, cap, gen, poisoned>>

\* Interner::intern / Interner::intern_borrowed up to the call of
\* intern_with: the key is hashed from the argument, without the lock; an
\* owned argument is moved into the closure, with the handle it contains.
InternCall(t, v) ==
    /\ Running
    /\ th[t].pc = "idle"
    /\ LiveCount + Cardinality(InIntern) < MaxHandles + (IF v.tag = "some" THEN 1 ELSE 0)
    /\ th' = [th EXCEPT ![t] = [Idle EXCEPT !.pc = "intern_lock",
                                            !.key = InternKeyHash(v),
                                            !.data = v]]
    /\ user' = IF v.tag = "some" THEN Take(user, v.inner) ELSE user
    /\ fast' = ""
    /\ UNCHANGED <<map, cap, gen, lock, poisoned>>

intern(t, v) == InternCall(t, v)

intern_borrowed(t, x) == InternCall(t, BorrowedLeaf(x))

\* Mutant of InternLock: the poison flag is ignored (lock() without unwrap).
InternLockIgnorePoison(t) ==
    /\ Running
    /\ th[t].pc = "intern_lock"
    /\ lock = 0
    /\ lock' = t
    /\ th' = [th EXCEPT ![t].pc = "intern_entry"]
    /\ fast' = ""
    /\ UNCHANGED <<map, cap, gen, poisoned, user>>

\* intern_with, self.map.lock().unwrap(): waits for the guard; a poisoned
\* Mutex makes unwrap panic, and unwinding drops the closure.
InternLock(t) ==
    /\ Running
    /\ th[t].pc = "intern_lock"
    /\ lock = 0
    /\ IF poisoned
       THEN /\ th' = [th EXCEPT ![t].pc =
                        IF th[t].data.tag = "some" THEN "unwind_dec" ELSE "panicked"]
            /\ UNCHANGED lock
       ELSE /\ lock' = t
            /\ th' = [th EXCEPT ![t].pc = "intern_entry"]
    /\ fast' = ""
    /\ UNCHANGED <<map, cap, gen, poisoned, user>>

\* Mutant of InternEntry: the closure is called before the entry is matched,
\* so a hit builds a value too.
InternEntryEager(t) ==
    /\ Running
    /\ th[t].pc = "intern_entry"
    /\ lock = t
    /\ LET k == th[t].key IN
       IF k \in DOMAIN map
       THEN /\ th' = [th EXCEPT ![t].pc = "intern_incr", ![t].data = NoData]
            /\ UNCHANGED <<map, cap, gen>>
       ELSE /\ map' = map @@ (k :> InternField(0, to_owned(th[t].data)))
            /\ cap' = Grow[1]
            /\ gen' = Grow[2]
            /\ th' = [th EXCEPT ![t].pc = "intern_incr", ![t].data = NoData]
    /\ fast' = ""
    /\ UNCHANGED <<lock, poisoned, user>>

\* Mutant of InternEntry: an entry found with count 0 is taken for dead and
\* built again.
InternEntryRebuildZero(t) ==
    /\ Running
    /\ th[t].pc = "intern_entry"
    /\ lock = t
    /\ LET k == th[t].key IN
       IF k \in DOMAIN map /\ map[k].count # 0
       THEN /\ th' = [th EXCEPT ![t].pc = "intern_incr"]
            /\ UNCHANGED <<map, cap, gen>>
       ELSE /\ map' = [x \in DOMAIN map \cup {k} |->
                        IF x = k THEN InternField(0, to_owned(th[t].data))
                        ELSE map[x]]
            /\ cap' = IF k \in DOMAIN map THEN cap ELSE Grow[1]
            /\ gen' = IF k \in DOMAIN map THEN gen ELSE Grow[2]
            /\ th' = [th EXCEPT ![t].pc = "intern_incr", ![t].data = NoData]
    /\ fast' = ""
    /\ UNCHANGED <<lock, poisoned, user>>

\* Mutant of InternEntry: a hit compares the stored value with the caller's
\* and panics when they differ.
InternEntryChecked(t) ==
    /\ Running
    /\ th[t].pc = "intern_entry"
    /\ lock = t
    /\ LET k == th[t].key IN
       IF k \in DOMAIN map
       THEN IF th[t].data.tag # "some" /\ map[k].data.leaf # th[t].data.leaf
            THEN /\ th' = [th EXCEPT ![t] = [Idle EXCEPT !.pc = "panicked"]]
                 /\ poisoned' = TRUE
                 /\ lock' = 0
                 /\ UNCHANGED <<map, cap, gen>>
            ELSE /\ th' = [th EXCEPT ![t].pc = "intern_incr"]
                 /\ UNCHANGED <<map, cap, gen, lock, poisoned>>
       ELSE /\ map' = map @@ (k :> InternField(0, to_owned(th[t].data)))
            /\ cap' = Grow[1]
            /\ gen' = Grow[2]
            /\ th' = [th EXCEPT ![t].pc = "intern_incr", ![t].data = NoData]
            /\ UNCHANGED <<lock, poisoned>>
    /\ fast' = ""
    /\ UNCHANGED user

\* Mutant of InternEntry: a hit stores the caller's value in the slot
\* (HashMap::insert instead of Entry).
InternEntryReplace(t) ==
    /\ Running
    /\ th[t].pc = "intern_entry"
    /\ lock = t
    /\ LET k == th[t].key IN
       IF k \in DOMAIN map
       THEN /\ th' = [th EXCEPT ![t].pc = "intern_incr"]
            /\ map' = IF th[t].data.tag = "some" THEN map
                      ELSE [map EXCEPT ![k].data = to_owned(th[t].data)]
            /\ UNCHANGED <<cap, gen>>
       ELSE /\ map' = map @@ (k :> InternField(0, to_owned(th[t].data)))
            /\ cap' = Grow[1]
            /\ gen' = Grow[2]
            /\ th' = [th EXCEPT ![t].pc = "intern_incr", ![t].data = NoData]
    /\ fast' = ""
    /\ UNCHANGED <<lock, poisoned, user>>

\* intern_with, map.entry(key): Occupied keeps the field and leaves the
\* closure uncalled; Vacant calls f() and inserts the field with count 0.
InternEntry(t) ==
    /\ Running
    /\ th[t].pc = "intern_entry"
    /\ lock = t
    /\ LET k == th[t].key IN
       IF k \in DOMAIN map
       THEN /\ th' = [th EXCEPT ![t].pc = "intern_incr"]
            /\ UNCHANGED <<map, cap, gen>>
       ELSE /\ map' = map @@ (k :> InternField(0, to_owned(th[t].data)))
            /\ cap' = Grow[1]
            /\ gen' = Grow[2]
            /\ th' = [th EXCEPT ![t].pc = "intern_incr", ![t].data = NoData]
    /\ fast' = ""
    /\ UNCHANGED <<lock, poisoned, user>>

\* intern_with, line 84: the closure of intern_borrowed runs the caller's
\* ToOwned::to_owned, which can panic.  It is evaluated before ve.insert,
\* so nothing is inserted; unwinding drops the guard, which poisons the
\* Mutex.
BuildPanic(t) ==
    /\ Running
    /\ th[t].pc = "intern_entry"
    /\ lock = t
    /\ th[t].key \notin DOMAIN map
    /\ th[t].data.tag = "view"
    /\ th' = [th EXCEPT ![t] = [Idle EXCEPT !.pc = "build_panicked"]]
    /\ poisoned' = TRUE
    /\ lock' = 0
    /\ fast' = ""
    /\ UNCHANGED <<map, cap, gen, user>>

\* intern_with, field.count.fetch_add(1) and the Interned it returns; the
\* guard is dropped, then the closure: an uncalled closure that owns a
\* handle drops it after the lock is released, before intern_with returns.
InternIncr(t) ==
    /\ Running
    /\ th[t].pc = "intern_incr"
    /\ lock = t
    /\ LET k == th[t].key
           made == Interned(k, AddrOf(k))
       IN
       /\ map' = [map EXCEPT ![k].count = @ + 1]
       /\ lock' = 0
       /\ IF th[t].data.tag = "some"
          THEN /\ th' = [th EXCEPT ![t].pc = "tail_dec", ![t].ret = made]
               /\ UNCHANGED user
          ELSE /\ th' = [th EXCEPT ![t] = Idle]
               /\ user' = Give(user, made)
    /\ fast' = ""
    /\ UNCHANGED <<cap, gen, poisoned>>

\* ---------------------------------------------------------------- clone
\* Mutant of clone: the count is incremented under the table lock.
clone_locked(t, i) ==
    /\ Running
    /\ th[t].pc = "idle"
    /\ Held(i) > 0
    /\ LiveCount + Cardinality(InIntern) < MaxHandles
    /\ lock = 0
    /\ map' = CountAdd(i, 1)
    /\ user' = Give(user, Interned(i.key, i.field))
    /\ fast' = Observed("clone")
    /\ UNCHANGED <<cap, gen, lock, poisoned, th>>

\* Clone for Interned: fetch_add on the field, copy of key and references.
clone(t, i) ==
    /\ Running
    /\ th[t].pc = "idle"
    /\ Held(i) > 0
    /\ LiveCount + Cardinality(InIntern) < MaxHandles
    /\ map' = CountAdd(i, 1)
    /\ user' = Give(user, Interned(i.key, i.field))
    /\ fast' = Observed("clone")
    /\ UNCHANGED <<cap, gen, lock, poisoned, th>>

\* Deref for Interned, as a step of a thread: reads the field, changes nothing.
DerefStep(t, i) ==
    /\ Running
    /\ th[t].pc = "idle"
    /\ Held(i) > 0
    /\ deref(i) # {}
    /\ fast' = Observed("deref")
    /\ UNCHANGED <<map, cap, gen, lock, poisoned, user, th>>

\* ----------------------------------------------------------------- drop
\* Drop for Interned, line 122, for a handle i the thread owns outside the
\* lock: fetch_sub(1) returned `was`; the drop goes on to the eviction only
\* if was = 1, else it ends and `thDone`, `userDone` are the thread and the
\* callers' handles then.
FetchSub(t, i, was, thDone, userDone) ==
    /\ map' = CountAdd(i, -1)
    /\ IF was = 1
       THEN /\ th' = [th EXCEPT ![t].pc = "drop_lock",
                                ![t].key = i.key,
                                ![t].data = NoData]
            /\ user' = userDone
       ELSE /\ th' = thDone
            /\ user' = userDone

\* A caller drops a handle it holds.
drop(t, i, was) ==
    /\ Running
    /\ th[t].pc = "idle"
    /\ Held(i) > 0
    /\ was \in CountRead(i)
    /\ FetchSub(t, i, was, [th EXCEPT ![t] = Idle], Take(user, i))
    /\ fast' = IF was = 1 THEN "" ELSE Observed("drop")
    /\ UNCHANGED <<cap, gen, lock, poisoned>>

\* The closure intern_with did not call is dropped, and with it the handle
\* inside its value; the lock has been released.
TailDrop(t) ==
    /\ Running
    /\ th[t].pc = "tail_dec"
    /\ \E was \in CountRead(th[t].data.inner) :
          IF was = 1
          THEN FetchSub(t, th[t].data.inner, was, th, user)
          ELSE FetchSub(t, th[t].data.inner, was, [th EXCEPT ![t] = Idle], Return(t))
    /\ fast' = ""
    /\ UNCHANGED <<cap, gen, lock, poisoned>>

\* Drop, line 123: self.interner.map.lock().unwrap().
DropLock(t) ==
    /\ Running
    /\ th[t].pc = "drop_lock"
    /\ lock = 0
    /\ IF poisoned
       THEN /\ th' = [th EXCEPT ![t].pc = "panicked"]
            /\ UNCHANGED lock
       ELSE /\ lock' = t
            /\ th' = [th EXCEPT ![t].pc = "drop_entry"]
    /\ fast' = ""
    /\ UNCHANGED <<map, cap, gen, poisoned, user>>

\* Mutant of DropEntry: the entry is removed without reading its count
\* again under the lock.
DropEntryNoRecheck(t) ==
    /\ Running
    /\ th[t].pc = "drop_entry"
    /\ lock = t
    /\ LET k == th[t].key IN
       IF k \notin DOMAIN map
       THEN /\ th' = [th EXCEPT ![t].pc = "panicked"]
            /\ poisoned' = TRUE
            /\ lock' = 0
            /\ UNCHANGED <<map, user>>
       ELSE /\ map' = [x \in DOMAIN map \ {k} |-> map[x]]
            /\ UNCHANGED poisoned
            /\ IF map[k].data.tag = "some"
               THEN /\ th' = [th EXCEPT ![t].pc = "nested_dec", ![t].data = map[k].data]
                    /\ UNCHANGED <<lock, user>>
               ELSE /\ th' = [th EXCEPT ![t] = Idle]
                    /\ lock' = 0
                    /\ user' = Return(t)
    /\ fast' = ""
    /\ UNCHANGED <<cap, gen>>

\* Drop, lines 124-132, under the guard: Vacant panics (the guard is dropped
\* while panicking, which poisons the Mutex); Occupied removes the field if
\* its count is 0.  `let _ = oe.remove()` drops the removed field at once,
\* before the guard: a handle inside its value is dropped with the lock held.
DropEntry(t) ==
    /\ Running
    /\ th[t].pc = "drop_entry"
    /\ lock = t
    /\ LET k == th[t].key IN
       IF k \notin DOMAIN map
       THEN /\ th' = [th EXCEPT ![t].pc = "panicked"]
            /\ poisoned' = TRUE
            /\ lock' = 0
            /\ UNCHANGED <<map, user>>
       ELSE IF map[k].count = 0
       THEN /\ map' = [x \in DOMAIN map \ {k} |-> map[x]]
            /\ UNCHANGED poisoned
            /\ IF map[k].data.tag = "some"
               THEN /\ th' = [th EXCEPT ![t].pc = "nested_dec", ![t].data = map[k].data]
                    /\ UNCHANGED <<lock, user>>
               ELSE /\ th' = [th EXCEPT ![t] = Idle]
                    /\ lock' = 0
                    /\ user' = Return(t)
       ELSE /\ th' = [th EXCEPT ![t] = Idle]
            /\ lock' = 0
            /\ user' = Return(t)
            /\ UNCHANGED <<map, poisoned>>
    /\ fast' = ""
    /\ UNCHANGED <<cap, gen>>

\* Drop of the handle owned by the removed field, line 122, run by the
\* thread that still holds the guard of line 123.
NestedDrop(t) ==
    /\ Running
    /\ th[t].pc = "nested_dec"
    /\ lock = t
    /\ LET i == th[t].data.inner IN
       \E was \in CountRead(i) :
          /\ map' = CountAdd(i, -1)
          /\ IF was = 1
             THEN /\ th' = [th EXCEPT ![t].pc = "nested_lock",
                                      ![t].key = i.key,
                                      ![t].data = NoData]
                  /\ UNCHANGED <<lock, user>>
             ELSE /\ th' = [th EXCEPT ![t] = Idle]
                  /\ user' = Return(t)
                  /\ lock' = 0
    /\ fast' = ""
    /\ UNCHANGED <<cap, gen, poisoned>>

\* The nested drop's lock() on the Mutex its own thread holds: std leaves
\* the outcome unspecified, the call never returns; it deadlocks or panics.
\* A panic unwinds through the outer drop, whose guard poisons the Mutex.
NestedLock(t) ==
    /\ Running
    /\ th[t].pc = "nested_lock"
    /\ lock = t
    /\ \/ /\ th' = [th EXCEPT ![t].pc = "deadlocked"]
          /\ UNCHANGED <<lock, poisoned>>
       \/ /\ th' = [th EXCEPT ![t].pc = "panicked"]
          /\ lock' = 0
          /\ poisoned' = TRUE
    /\ fast' = ""
    /\ UNCHANGED <<map, cap, gen, user>>

\* The closure dropped while intern_with unwinds from a poisoned lock: its
\* handle is dropped; a drop that reads 1 calls lock().unwrap() on the
\* poisoned Mutex, and the second panic aborts the process.
UnwindDrop(t) ==
    /\ Running
    /\ th[t].pc = "unwind_dec"
    /\ LET i == th[t].data.inner IN
       \E was \in CountRead(i) :
          /\ map' = CountAdd(i, -1)
          /\ th' = [th EXCEPT ![t].pc = IF was = 1 THEN "aborted" ELSE "panicked",
                              ![t].key = IF was = 1 THEN i.key ELSE @,
                              ![t].data = NoData]
    /\ fast' = ""
    /\ UNCHANGED <<cap, gen, lock, poisoned, user>>

\* ----------------------------------------------------------------- Next
\* The handles a caller wraps in Foo::FooSome: handles to leaves, as
\* tests::recursive does.
Wrappable == {i \in DOMAIN user : Len(i.key) = 1}

Next ==
    \/ \E t \in Threads, x \in Leaves : intern(t, OwnedLeaf(x))
    \/ \E t \in Threads, i \in Wrappable : intern(t, FooSome(i))
    \/ \E t \in Threads, x \in Leaves : intern_borrowed(t, x)
    \/ \E t \in Threads : InternLock(t)
    \/ \E t \in Threads : InternEntry(t)
    \/ \E t \in Threads : InternIncr(t)
    \/ \E t \in Threads, i \in DOMAIN user : clone(t, i)
    \/ \E t \in Threads, i \in DOMAIN user : DerefStep(t, i)
    \/ \E t \in Threads, i \in DOMAIN user : \E was \in CountRead(i) : drop(t, i, was)
    \/ \E t \in Threads : TailDrop(t)
    \/ \E t \in Threads : DropLock(t)
    \/ \E t \in Threads : DropEntry(t)
    \/ \E t \in Threads : NestedDrop(t)
    \/ \E t \in Threads : NestedLock(t)
    \/ \E t \in Threads : UnwindDrop(t)
    \/ \E t \in Threads : BuildPanic(t)

Spec == Init /\ [][Next]_vars

\* The same program with callers that also pass the colliding content.
CollisionNext ==
    \/ Next
    \/ \E t \in Threads : intern(t, OwnedLeaf(Colliding))
    \/ \E t \in Threads : intern_borrowed(t, Colliding)

CollisionSpec == Init /\ [][CollisionNext]_vars

\* =================================================================== claims
\* The content a key was hashed from, as Deref shows it.
KeyView(k) == IF Len(k) = 1 THEN k[1] ELSE "FooSome"

\* The handles with key k whose drop has not yet decremented.
LiveOf(k) == {i \in LiveHandles : i.key = k}

\* Threads inside an operation on key k (an intern that has inserted and not
\* yet counted its handle, a drop that has decremented and not returned).
Busy(k) ==
    {t \in Threads : /\ th[t].pc \notin {"idle", "intern_lock", "intern_entry"}
                     /\ th[t].key = k}

\* C1 -- No premature eviction: while a handle is live, the slot it
\* references is the entry stored in the table under its key, so that
\* dereferencing it yields the value it was interned with.
C1_NoPrematureEviction ==
    \A i \in LiveHandles :
        /\ i.key \in DOMAIN map
        /\ i.field = AddrOf(i.key)
        /\ map[i.key].count > 0

\* C2 -- Slot address stability: between its insertion and its removal a
\* slot's storage location never changes, whatever is inserted or removed.
C2_SlotAddressStable ==
    [][\A k \in DOMAIN map \cap DOMAIN map' : AddrOf(k)' = AddrOf(k)]_vars

\* C3 -- Identity: two handles live at the same time for the same key
\* reference the very same slot.
C3_Identity ==
    \A i \in LiveHandles : \A j \in LiveHandles :
        i.key = j.key => i.field = j.field

\* C4 -- Remove exactly on last drop: while a handle to a key is live its
\* entry is in the table, and once every handle to it has been dropped and
\* the drops have completed the entry is absent.
C4_RemoveOnLastDrop ==
    \A k \in DOMAIN map \cup {i.key : i \in LiveHandles} :
        (k \in DOMAIN map) <=> (LiveOf(k) # {} \/ Busy(k) # {})

\* C5 -- Hit avoids rebuild: intern_with calls the build closure (to_owned
\* for intern_borrowed) exactly when the key is absent while it holds the
\* lock, and the key is never absent while a handle to it is live, so calls
\* whose handles are kept alive build once.
EntryStep(t) == th[t].pc = "intern_entry" /\ th'[t].pc = "intern_incr"

C5_HitAvoidsRebuild ==
    [][\A t \in Threads : EntryStep(t) =>
          LET k == th[t].key IN
          /\ (th'[t].data = NoData) <=> (k \notin DOMAIN map)
          /\ k \in DOMAIN map => map' = map
          /\ k \notin DOMAIN map =>
                /\ LiveOf(k) = {}
                /\ map'[k] = InternField(0, to_owned(th[t].data))]_vars

\* An intern_borrowed that hit: it holds the lock, its view is not made
\* into an owned value, and a handle to the key is live.
C5_Witness ==
    \E t \in Threads :
        /\ th[t].pc = "intern_incr"
        /\ th[t].data.tag = "view"
        /\ LiveOf(th[t].key) # {}

\* C6 -- Recursive content: the key of a value that contains a handle is
\* computed without the table lock, the intern never waits for a lock its
\* own thread holds, and once it holds the lock it runs on and returns a
\* handle to the key.
C6_RecursiveIntern ==
    /\ [](\A t \in Threads :
            /\ th[t].pc = "intern_lock" => lock # t
            /\ (th[t].pc \in {"intern_entry", "intern_incr"} /\ Running) =>
                  lock = t /\ ENABLED (InternEntry(t) \/ InternIncr(t)))
    /\ [][\A t \in Threads :
            /\ (th[t].pc = "idle" /\ th'[t].pc = "intern_lock") =>
                  /\ lock' = lock
                  /\ th'[t].key = InternKeyHash(th'[t].data)
            /\ (th[t].pc = "intern_incr" /\ th'[t].pc # "intern_incr") =>
                  LET made == Interned(th[t].key, AddrOf(th[t].key)) IN
                  \/ th'[t].ret = made
                  \/ user' = Give(user, made)]_vars

\* A caller holds the handle returned for a Foo::FooSome value.
C6_Witness == \E i \in DOMAIN user : Len(i.key) > 1 /\ FieldValid(i)

\* C8 -- Lock-free fast paths: clone, deref and a drop that read a count
\* other than 1 can run whoever holds the lock, and leave the lock and the
\* table's key set alone; the lock is taken only by intern_with and by a
\* drop whose fetch_sub read 1.
C8_LockFreeFastPaths ==
    /\ [](\A t \in Threads : \A i \in DOMAIN user :
            (Running /\ th[t].pc = "idle") =>
                /\ ENABLED DerefStep(t, i)
                /\ \A was \in CountRead(i) : ENABLED drop(t, i, was)
                /\ LiveCount + Cardinality(InIntern) < MaxHandles =>
                      ENABLED clone(t, i))
    /\ [][/\ \A t \in Threads : \A i \in DOMAIN user :
                (\/ clone(t, i)
                 \/ DerefStep(t, i)
                 \/ \E was \in CountRead(i) \ {1} : drop(t, i, was))
                => (lock' = lock /\ DOMAIN map' = DOMAIN map)
          /\ lock' \notin {lock, 0} =>
                th[lock'].pc \in {"intern_lock", "drop_lock"}
          /\ \A t \in Threads :
                (th'[t].pc = "drop_lock" /\ th[t].pc # "drop_lock") =>
                    /\ th[t].pc \in {"idle", "tail_dec"}
                    /\ \E i \in LiveOf(th'[t].key) : 1 \in CountRead(i)]_vars

\* A clone has just run while another thread held the table lock.
C8_Witness == fast = "clone" /\ lock # 0

\* C7 -- Handle equality and hashing go by the key alone, and handles to one
\* content, however obtained, are equal and dereference to that content.
C7_EqualByKey ==
    \A i \in LiveHandles : \A j \in LiveHandles :
        /\ eq(i, j) <=> i.key = j.key
        /\ hash(i) = hash(j) <=> i.key = j.key
        /\ deref(i) = {KeyView(i.key)}

\* C9 -- The fatal branch is unreachable: a drop that read 1 and then holds
\* the table lock finds its key in the table.
C9_NoFatalBranch ==
    \A t \in Threads : th[t].pc = "drop_entry" => th[t].key \in DOMAIN map

\* C10 -- Nested drop terminates: the drop of a handle owned by a removed
\* slot's value never waits for the table lock its own thread holds.
C10_NestedDropNoRelock ==
    \A t \in Threads : ~(th[t].pc \in {"nested_lock", "deadlocked"} /\ lock = t)

\* A drop's eviction step: lines 124-132 run by thread t on a present key.
EvictionStep(t) ==
    /\ th[t].pc = "drop_entry"
    /\ th'[t].pc # "drop_entry"
    /\ th[t].key \in DOMAIN map

\* C11 -- Re-check under the lock: the eviction step of drop removes the
\* entry of its key exactly when the count it reads while holding the lock
\* is 0, and otherwise leaves the table unchanged; no entry leaves the table
\* in any other way.
C11_RecheckUnderLock ==
    [][/\ \A t \in Threads : EvictionStep(t) =>
             LET k == th[t].key IN
             /\ lock = t
             /\ (k \notin DOMAIN map') <=> (map[k].count = 0)
             /\ map[k].count # 0 => map' = map
             /\ \A x \in DOMAIN map \ {k} : x \in DOMAIN map' /\ map'[x] = map[x]
       /\ \A k \in DOMAIN map \ DOMAIN map' :
             \E t \in Threads :
                EvictionStep(t) /\ th[t].key = k /\ map[k].count = 0]_vars

\* An eviction step has removed the entry of a Foo::FooSome value: the
\* thread still holds the lock and the removed value.
C11_Witness ==
    \E t \in Threads :
        /\ th[t].pc = "nested_dec"
        /\ lock = t
        /\ th[t].key \notin DOMAIN map

\* The number of live handles with key k.
LiveNum(k) ==
    BagSize([i \in {j \in DOMAIN user : j.key = k} |-> user[i]])
       + Cardinality({x \in InFields : map[x].data.inner.key = k})
       + Cardinality({t \in InLocals : th[t].data.inner.key = k})
       + Cardinality({t \in Returning : th[t].ret.key = k})

\* Threads whose drop decremented the count of key k to zero (fetch_sub
\* returned 1) and has not returned.
DropPending(k) ==
    {t \in Threads :
        /\ th[t].pc \in {"drop_lock", "drop_entry", "nested_lock",
                         "deadlocked", "panicked", "aborted"}
        /\ th[t].key = k}

\* Threads that hold the lock between the insert of key k and its fetch_add.
Inserting(k) ==
    {t \in Threads : th[t].pc = "intern_incr" /\ th[t].key = k /\ lock = t}

\* C12 -- Count accounting: the count of every slot in the table is the
\* number of live handles to it, never below zero, and a slot with count 0
\* is either held under the lock by the intern that inserted it or awaits
\* the eviction of a drop.
C12_CountAccounting ==
    \A k \in DOMAIN map :
        /\ map[k].count = LiveNum(k)
        /\ map[k].count >= 0
        /\ map[k].count = 0 => (Inserting(k) # {} \/ DropPending(k) # {})

\* C13 -- Table membership tracks liveness: for a key with no drop between
\* its decrement to zero and the end of its eviction step (and no intern
\* between its insert and its increment), the key is in the table iff a
\* live handle with that key exists, and then its count is positive.
C13_MembershipTracksLiveness ==
    \A k \in DOMAIN map \cup {i.key : i \in LiveHandles} :
        (DropPending(k) = {} /\ Inserting(k) = {}) =>
            /\ (k \in DOMAIN map) <=> (LiveOf(k) # {})
            /\ k \in DOMAIN map => map[k].count > 0

\* Key k has a slot with count 0 that a drop of another thread than b is
\* about to lock the table for.
PendingZero(b, k) ==
    /\ k \in DOMAIN map
    /\ map[k].count = 0
    /\ \E a \in Threads \ {b} : th[a].pc = "drop_lock" /\ th[a].key = k

\* C14 -- Reuse of a slot pending eviction: an intern that locks the table
\* before the drop that brought the count to 0 finds the entry, does not
\* build, raises the count to 1 under the lock and returns a handle to that
\* slot; an eviction step run while a handle to the key is live finds a
\* nonzero count and removes nothing.
C14_ReusePendingSlot ==
    [][\A b \in Threads :
          LET k == th[b].key IN
          /\ (th[b].pc = "intern_entry" /\ th'[b].pc # "intern_entry"
                /\ PendingZero(b, k)) =>
                /\ th'[b].pc = "intern_incr"
                /\ th'[b].data = th[b].data
                /\ map' = map
          /\ (th[b].pc = "intern_incr" /\ th'[b].pc # "intern_incr"
                /\ PendingZero(b, k)) =>
                /\ lock = b
                /\ map' = [map EXCEPT ![k].count = 1]
                /\ gen' = gen
                /\ \/ user' = Give(user, Interned(k, AddrOf(k)))
                   \/ th'[b].ret = Interned(k, AddrOf(k))
          /\ (th[b].pc = "drop_entry" /\ th'[b].pc # "drop_entry"
                /\ LiveOf(k) # {}) =>
                /\ k \in DOMAIN map
                /\ map[k].count # 0
                /\ map' = map]_vars

\* An intern has found, under the lock, the entry whose count another
\* thread's drop brought to 0, and has kept its closure uncalled.
C14_Witness ==
    \E b \in Threads :
        /\ th[b].pc = "intern_incr"
        /\ lock = b
        /\ th[b].data # NoData
        /\ PendingZero(b, th[b].key)

\* Threads whose operation will never return.
Stuck == {t \in Threads : th[t].pc \in {"deadlocked", "panicked", "aborted"}}

\* Every handle has been dropped and every operation has returned.
Quiescent == LiveHandles = {} /\ \A t \in Threads : th[t].pc = "idle"

\* C15 -- Eventual eviction, through what it requires of single states: as
\* long as no build closure has panicked, no operation is stuck for good,
\* and once every handle is dropped and every operation has returned the
\* table is empty (only interns can run then, so an entry left would stay).
C15_EventualEviction ==
    (\A t \in Threads : th[t].pc # "build_panicked") =>
        /\ Stuck = {}
        /\ Quiescent => map = EmptyMap

\* Thread t is at a hit on a slot that stores another leaf than the one the
\* caller passed, while a handle to the slot is live.
Collides(t) ==
    /\ th[t].key \in DOMAIN map
    /\ th[t].data.tag \in {"leaf", "view"}
    /\ map[th[t].key].data.leaf # th[t].data.leaf
    /\ LiveOf(th[t].key) # {}

\* C16 -- Collision aliasing: interning a value whose key is that of a
\* different value with a live handle hits the first value's slot: nothing
\* is inserted or built, no panic is raised, the caller's value is dropped,
\* and the handle returned references the first value's slot, dereferences
\* to the first value and equals the live handles.
C16_CollisionAliasing ==
    [][\A t \in Threads :
          LET k == th[t].key
              made == Interned(k, AddrOf(k))
          IN
          /\ (th[t].pc = "intern_entry" /\ th'[t].pc # "intern_entry"
                /\ Collides(t)) =>
                /\ th'[t].pc = "intern_incr"
                /\ th'[t].data = th[t].data
                /\ map' = map
                /\ poisoned' = poisoned
          /\ (th[t].pc = "intern_incr" /\ th'[t].pc # "intern_incr"
                /\ Collides(t)) =>
                /\ th'[t] = Idle
                /\ user' = Give(user, made)
                /\ DOMAIN map' = DOMAIN map
                /\ map'[k].data = map[k].data
                /\ gen' = gen
                /\ deref(made) = {View(map[k].data)}
                /\ \A i \in LiveOf(k) : eq(i, made)]_vars

\* An intern of a colliding value has hit the slot of the first value.
C16_Witness ==
    \E t \in Threads : th[t].pc = "intern_incr" /\ Collides(t)

\* C17 -- Slot payload is immutable: no step changes the value stored in a
\* slot that stays in the table; only its count changes.
C17_PayloadImmutable ==
    [][\A k \in DOMAIN map \cap DOMAIN map' : map'[k].data = map[k].data]_vars

\* An intern of an owned colliding value has hit the slot that stores
\* "hello" and is about to count its handle.
C17_Witness ==
    \E t \in Threads :
        /\ th[t].pc = "intern_incr"
        /\ th[t].data = OwnedLeaf(Colliding)
        /\ map[th[t].key].data = OwnedLeaf("hello")

\* C18 -- Fail-fast after a failure under the lock: a thread that panics
\* while it holds the lock poisons it and leaves the table as it was; from
\* then on nobody holds the lock, no entry is inserted, removed or replaced,
\* and every intern and every drop that read 1 panics at lock().
C18_FailFast ==
    /\ [](poisoned => lock = 0)
    /\ [][/\ (poisoned' /\ ~poisoned) =>
                /\ lock # 0
                /\ lock' = 0
                /\ th'[lock].pc \in {"panicked", "build_panicked"}
                /\ map' = map
          /\ \A t \in Threads :
                (lock = t /\ th'[t].pc \in {"panicked", "build_panicked"})
                    => poisoned'
          /\ poisoned =>
                /\ poisoned'
                /\ DOMAIN map' = DOMAIN map
                /\ \A k \in DOMAIN map : map'[k].data = map[k].data
                /\ \A t \in Threads :
                      (th[t].pc \in {"intern_lock", "drop_lock"}
                          /\ th'[t] # th[t]) =>
                          /\ th'[t].pc \in {"panicked", "unwind_dec"}
                          /\ map' = map]_vars

\* The lock is poisoned, and after the thread that failed under it the
\* other thread has failed at lock().
C18_Witness ==
    /\ poisoned
    /\ \A t \in Threads : th[t].pc \in {"panicked", "build_panicked"}

====
